---- MODULE Spec2Model ----
(***************************************************************************)
(* sync_docker_images.py as a state machine.  The script is one top-level  *)
(* sequence of statements; pc is its position.  Strings that the script    *)
(* takes apart or glues together (registry addresses, image references,    *)
(* docker commands, printed lines) are sequences of tokens, the scheme     *)
(* separator "://" being one token.  Every HTTP call is two steps, the     *)
(* request leaving and its response (or a transport exception) arriving.   *)
(***************************************************************************)
EXTENDS Integers, Sequences, FiniteSets, TLC

VARIABLES
    args,                   \* argparse namespace (49)
    dry_run,                \* (39)
    pc,                     \* position in the script
    images,                 \* (18) the report: header record, then one record per image:tag
    source_catalog,         \* (68) response of the catalog request
    image_idx, image,       \* (97) iterator position and loop variable over repositories
    tags,                   \* (99) response of the tag list request
    tag_idx, tag,           \* (101) iterator position and loop variable over tags
    source_digest_request,  \* (103)
    target_digest_request,  \* (104)
    docker_client,          \* (77) "none", "open", "closed"
    stdout,                 \* lines printed so far
    csvFile,                \* (144) rows written to output.csv
    executed,               \* docker operations run against the daemon (pull, tag, push, rmi)
    exit_status,            \* "running", 0 or 1
    traceback,              \* the uncaught exception that ended the run, if any
    trace,                  \* every HTTP request issued, in order
    inflight,               \* HTTP requests issued and not yet answered
    enumerated              \* identities discovered so far: the tags of each tag list received

vars == <<args, dry_run, pc, images, source_catalog, image_idx, image, tags, tag_idx, tag,
          source_digest_request, target_digest_request, docker_client, stdout, csvFile,
          executed, exit_status, traceback, trace, inflight, enumerated>>

-----------------------------------------------------------------------------
(* Bounds of the environment the script runs against.                       *)

\* longest catalog a registry answers with
MaxRepos == 2
\* longest tag list a registry answers with
MaxTags == 2
\* most image:tag identities in one run
MaxRecords == 2

-----------------------------------------------------------------------------
(* Sequence helpers.                                                        *)

Max(S) == CHOOSE x \in S : \A y \in S : y <= x

IsPrefix(s, t) == Len(s) <= Len(t) /\ SubSeq(t, 1, Len(s)) = s

RECURSIVE Flatten(_)
Flatten(ss) == IF ss = <<>> THEN <<>> ELSE Head(ss) \o Flatten(Tail(ss))

\* sequences over S without repetition, of length at most n
DistinctSeqs(S, n) ==
    UNION { { s \in [1..k -> S] : \A i, j \in 1..k : i # j => s[i] # s[j] } : k \in 0..n }

-----------------------------------------------------------------------------
(* Status messages (15).                                                    *)

image_status == << "Image doesn't exist on target",
                   "Image already present on target",
                   "Conflict: same tag exist in both registries with different digest" >>

\* the header record (20-31)
HeaderRecord ==
    [ image |-> "Image", tag |-> "Tag",
      source_digest |-> "Source digest", target_digest |-> "Target digest",
      status |-> "Status",
      pull_command |-> <<"Pull command">>, retag_command |-> <<"Retag command">>,
      push_command |-> <<"Push command">>,
      cleanup_source |-> <<"Cleanup source image">>,
      cleanup_target |-> <<"Cleanup target image">> ]

-----------------------------------------------------------------------------
(* The command line (43-49).                                                *)

\* registry addresses a user may pass: with a scheme, without one, with a
\* trailing slash, and one whose path itself holds a scheme separator
Addresses ==
    { <<"https", "://", "source.example.com">>,
      <<"https", "://", "target.example.com">>,
      <<"registry.local:5000">>,
      <<"http", "://", "target.example.com", "/">>,
      <<"https", "://", "proxy.example.com/", "http", "://", "mirror.example.com">> }

Namespace(sreg, suser, spass, treg, tuser, tpass) ==
    [ source_registry |-> sreg, source_user |-> suser, source_password |-> spass,
      target_registry |-> treg, target_user |-> tuser, target_password |-> tpass ]

\* command lines of whole runs; a password is empty when the prompt (58, 63)
\* was answered with nothing
ArgSets ==
    { Namespace(<<"https", "://", "source.example.com">>, "", "",
                <<"https", "://", "target.example.com">>, "", ""),
      Namespace(<<"registry.local:5000">>, "alice", "s3cret",
                <<"http", "://", "target.example.com", "/">>, "bob", ""),
      Namespace(<<"https", "://", "proxy.example.com/", "http", "://", "mirror.example.com">>,
                "alice", "s3cret",
                <<"https", "://", "target.example.com">>, "bob", "hunter2") }

-----------------------------------------------------------------------------
(* What a registry may answer.  A response is the requests.Response the     *)
(* script reads: its JSON body (.json()) and its headers; exc is the        *)
(* exception requests raises instead of returning (timeout, connection      *)
(* error, malformed HTTP).  A JSON object is its key set, the keys whose    *)
(* value is null, and the values of the keys the script reads.              *)

RepoNames == {"app", "broken-repo"}
TagNames == {"v1", "latest"}
\* values of the Docker-Content-Digest header, the empty value included
DigestValues == {"sha256:aaa", "sha256:bbb", ""}
StatusCodes == {200, 404}

DigestHeader == "Docker-Content-Digest"

JsonObject(keys, nulls, repositories, tagList, errors) ==
    [ keys |-> keys, nulls |-> nulls, repositories |-> repositories,
      tags |-> tagList, errors |-> errors ]

EmptyObject == JsonObject({}, {}, <<>>, <<>>, <<>>)

Response(exc, code, isJson, json, headers) ==
    [ exc |-> exc, status_code |-> code, is_json |-> isJson, json |-> json, headers |-> headers ]

\* a variable not assigned yet
Unset == Response("unset", 0, FALSE, EmptyObject, {})

\* requests raised instead of returning
Raised == Response("ConnectionError", 0, FALSE, EmptyObject, {})

RegistryErrors ==
    << [ code |-> "UNAUTHORIZED", message |-> "authentication required" ],
       [ code |-> "DENIED", message |-> "requested access to the resource is denied" ] >>

\* answers to GET /v2/_catalog
CatalogResponses ==
    { Response("none", 200, TRUE, JsonObject({"repositories"}, {}, r, <<>>, <<>>), {})
        : r \in DistinctSeqs(RepoNames, MaxRepos) }
    \cup { Response("none", 401, TRUE,
                    JsonObject({"errors"}, {}, <<>>, <<>>, SubSeq(RegistryErrors, 1, n)), {})
             : n \in 0..2 }
    \cup { Response("none", 200, TRUE,
                    JsonObject({"errors", "repositories"}, {}, <<"app">>, <<>>, <<>>), {}),
           Response("none", 200, TRUE, EmptyObject, {}),
           Response("none", 502, FALSE, EmptyObject, {}),
           Raised }

\* answers to GET /v2/<repo>/tags/list, at most n tags long
TagListResponses(n) ==
    { Response("none", 200, TRUE, JsonObject({"name", "tags"}, {}, <<>>, t, <<>>), {})
        : t \in DistinctSeqs(TagNames, n) }
    \cup { Response("none", 200, TRUE, JsonObject({"name", "tags"}, {"tags"}, <<>>, <<>>, <<>>), {}),
           Response("none", 404, TRUE,
                    JsonObject({"errors"}, {}, <<>>, <<>>, SubSeq(RegistryErrors, 1, 1)), {}),
           Response("none", 502, FALSE, EmptyObject, {}),
           Raised }

\* answers to GET /v2/<repo>/manifests/<tag>: any status code with any header
ManifestResponses ==
    { Response("none", c, TRUE, EmptyObject, h)
        : c \in StatusCodes, h \in {{}} \cup { {<<DigestHeader, d>>} : d \in DigestValues } }

\* the answers a whole run draws from, and the exception requests raises
RunManifestResponses ==
    { Response("none", 200, TRUE, EmptyObject, {<<DigestHeader, "sha256:aaa">>}),
      Response("none", 200, TRUE, EmptyObject, {<<DigestHeader, "sha256:bbb">>}),
      Response("none", 404, TRUE, EmptyObject, {}),
      Raised }

\* 'name' in response.headers
HasHeader(response, name) == \E h \in response.headers : h[1] = name

\* response.headers.get(name)
GetHeader(response, name) == (CHOOSE h \in response.headers : h[1] = name)[2]

-----------------------------------------------------------------------------
(* The pure parts of the loop body (105-134).                               *)

\* the address left as it is: the substitution forgotten
re_sub_scheme_kept(address) == address

\* re.sub(".*://", "", address): the pattern is greedy, so the match runs
\* to the last "://" of the address
re_sub_scheme(address) ==
    LET seps == { i \in 1..Len(address) : address[i] = "://" }
    IN  IF seps = {} THEN address ELSE SubSeq(address, Max(seps) + 1, Len(address))

\* (113, 115)
source_image(a, img, tg) == re_sub_scheme(a.source_registry) \o <<"/", img, ":", tg>>

\* (114, 116)
target_image(a, img, tg) == re_sub_scheme(a.target_registry) \o <<"/", img, ":", tg>>

\* the header read only from a 200 answer
DigestOfOkOnly(response) ==
    IF response.status_code = 200 /\ HasHeader(response, DigestHeader)
    THEN GetHeader(response, DigestHeader) ELSE ""

\* (105-110) the digest string read from a manifest response; "" when the
\* header is missing
DigestOf(response) ==
    IF HasHeader(response, DigestHeader) THEN GetHeader(response, DigestHeader) ELSE ""

\* the equality test placed before the emptiness test
StatusOfEqualFirst(source_digest, target_digest) ==
    IF source_digest = target_digest THEN image_status[2]
    ELSE IF target_digest = "" THEN image_status[1]
    ELSE image_status[3]

\* (124-129) "not target_digest" is true of the empty string
StatusOf(source_digest, target_digest) ==
    CASE target_digest = "" -> image_status[1]
      [] target_digest # "" /\ source_digest = target_digest -> image_status[2]
      [] target_digest # "" /\ source_digest # target_digest -> image_status[3]

\* the push and retag templates assigned to each other's field
ImageInfoSwapped(a, img, tg, sreq, treq) ==
    [ image |-> img, tag |-> tg,
      source_digest |-> DigestOf(sreq), target_digest |-> DigestOf(treq),
      status |-> StatusOf(DigestOf(sreq), DigestOf(treq)),
      pull_command |-> <<"docker pull ">> \o source_image(a, img, tg),
      retag_command |-> <<"docker push ">> \o target_image(a, img, tg),
      push_command |-> <<"docker tag ">> \o source_image(a, img, tg)
                          \o <<" ">> \o target_image(a, img, tg),
      cleanup_source |-> <<"docker rmi ">> \o source_image(a, img, tg),
      cleanup_target |-> <<"docker rmi ">> \o target_image(a, img, tg) ]

\* (119-134) the record of one image:tag
ImageInfo(a, img, tg, sreq, treq) ==
    [ image |-> img, tag |-> tg,
      source_digest |-> DigestOf(sreq), target_digest |-> DigestOf(treq),
      status |-> StatusOf(DigestOf(sreq), DigestOf(treq)),
      pull_command |-> <<"docker pull ">> \o source_image(a, img, tg),
      retag_command |-> <<"docker tag ">> \o source_image(a, img, tg)
                          \o <<" ">> \o target_image(a, img, tg),
      push_command |-> <<"docker push ">> \o target_image(a, img, tg),
      cleanup_source |-> <<"docker rmi ">> \o source_image(a, img, tg),
      cleanup_target |-> <<"docker rmi ">> \o target_image(a, img, tg) ]

-----------------------------------------------------------------------------
(* Output (138-174).                                                        *)

\* (145-149) one CSV row: the values of a record in the header's key order
CsvRow(rec) ==
    << <<rec.image>>, <<rec.tag>>, <<rec.source_digest>>, <<rec.target_digest>>,
       <<rec.status>>, rec.pull_command, rec.retag_command, rec.push_command,
       rec.cleanup_source, rec.cleanup_target >>

\* the status test of line 159 dropped
CommandBlockAlways(rec) ==
    << rec.pull_command, rec.retag_command, rec.push_command,
       rec.cleanup_source, rec.cleanup_target, <<"">> >>

\* (159-165) what the dry run prints for one record
CommandBlock(rec) ==
    IF rec.status = image_status[1]
    THEN << rec.pull_command, rec.retag_command, rec.push_command,
            rec.cleanup_source, rec.cleanup_target, <<"">> >>
    ELSE <<>>

\* (158-165) for image in images[1:]
RECURSIVE PrintCommands(_)
PrintCommands(recs) ==
    IF recs = <<>> THEN <<>> ELSE CommandBlock(Head(recs)) \o PrintCommands(Tail(recs))

\* (172-174) for image in images[1:]: the image:tag of the records with this status
RECURSIVE PrintWithStatus(_, _)
PrintWithStatus(recs, status_message) ==
    IF recs = <<>> THEN <<>>
    ELSE (IF Head(recs).status = status_message
          THEN << <<Head(recs).image, ":", Head(recs).tag>> >> ELSE <<>>)
         \o PrintWithStatus(Tail(recs), status_message)

\* (170-174) for status_message in image_status[2:]
RECURSIVE PrintListings(_, _)
PrintListings(recs, messages) ==
    IF messages = <<>> THEN <<>>
    ELSE << <<Head(messages)>> >> \o PrintWithStatus(recs, Head(messages))
         \o PrintListings(recs, Tail(messages))

\* (156-174) everything the dry run prints
DryRunOutput(imgs) ==
    << <<"">>, <<"These commands would run:">> >>
    \o PrintCommands(Tail(imgs))
    \o << <<"">> >>
    \o PrintListings(Tail(imgs), SubSeq(image_status, 3, Len(image_status)))

\* (176-178) the executor is a stub: nothing is run against the daemon
ExecutePlan(imgs) == <<>>

-----------------------------------------------------------------------------
(* Control.                                                                 *)

loopVars == <<image_idx, image, tags, tag_idx, tag>>
reqVars  == <<source_digest_request, target_digest_request>>
outVars  == <<stdout, csvFile, executed>>
httpVars == <<trace, inflight>>

Goto(label) == pc' = label /\ UNCHANGED <<exit_status, traceback>>

\* exit(code)
Exit(code) == pc' = "exited" /\ exit_status' = code /\ UNCHANGED traceback

\* an exception nothing catches: the interpreter prints the traceback and exits 1
Crash(exc, at) ==
    pc' = "crashed" /\ exit_status' = 1 /\ traceback' = [ exc |-> exc, at |-> at ]

Request(session, method, url) == [ session |-> session, method |-> method, url |-> url ]

\* a request repeated once when it leaves
SendWithRetry(req) == trace' = trace \o <<req, req>> /\ inflight' = inflight \cup {req}

\* session.get / session.post leaves: the call blocks until Receive
Send(req) == trace' = Append(trace, req) /\ inflight' = inflight \cup {req}

Receive == inflight' = {} /\ UNCHANGED trace

CatalogUrl(a) == a.source_registry \o <<"/v2/_catalog">>
TagsUrl(a, img) == a.source_registry \o <<"/v2/", img, "/tags/list">>
SourceManifestUrl(a, img, tg) == a.source_registry \o <<"/v2/", img, "/manifests/", tg>>
TargetManifestUrl(a, img, tg) == a.target_registry \o <<"/v2/", img, "/manifests/", tg>>

\* the state before the first request; dry_run is the switch of line 39 (True
\* as shipped), explored in both positions because line 175 has a branch for
\* the other one; a user given without a password is prompted (58, 63), so
\* args holds the password typed
Init ==
    /\ args \in ArgSets
    /\ dry_run \in BOOLEAN
    /\ pc = "source_auth"
    /\ images = <<HeaderRecord>>
    /\ source_catalog = Unset
    /\ image_idx = 0 /\ image = ""
    /\ tags = Unset
    /\ tag_idx = 0 /\ tag = ""
    /\ source_digest_request = Unset
    /\ target_digest_request = Unset
    /\ docker_client = "none"
    /\ stdout = <<>>
    /\ csvFile = <<>>
    /\ executed = <<>>
    /\ exit_status = "running"
    /\ traceback = [ exc |-> "none", at |-> "none" ]
    /\ trace = <<>>
    /\ inflight = {}
    /\ enumerated = <<>>

\* (56-60)
SourceAuth ==
    /\ pc = "source_auth"
    /\ IF args.source_user # ""
       THEN Send(Request("source", "POST", args.source_registry)) /\ Goto("source_auth_wait")
       ELSE UNCHANGED httpVars /\ Goto("target_auth")
    /\ UNCHANGED <<args, dry_run, images, source_catalog, loopVars, reqVars, docker_client,
                   outVars, enumerated>>

\* (60) the answer is stored in source_auth and never read
SourceAuthResponse ==
    /\ pc = "source_auth_wait"
    /\ Receive
    /\ \E raised \in BOOLEAN :
         IF raised THEN Crash("ConnectionError", "source_auth") ELSE Goto("target_auth")
    /\ UNCHANGED <<args, dry_run, images, source_catalog, loopVars, reqVars, docker_client,
                   outVars, enumerated>>

\* (61-65)
TargetAuth ==
    /\ pc = "target_auth"
    /\ IF args.target_user # ""
       THEN Send(Request("target", "POST", args.target_registry)) /\ Goto("target_auth_wait")
       ELSE UNCHANGED httpVars /\ Goto("catalog")
    /\ UNCHANGED <<args, dry_run, images, source_catalog, loopVars, reqVars, docker_client,
                   outVars, enumerated>>

\* (65)
TargetAuthResponse ==
    /\ pc = "target_auth_wait"
    /\ Receive
    /\ \E raised \in BOOLEAN :
         IF raised THEN Crash("ConnectionError", "target_auth") ELSE Goto("catalog")
    /\ UNCHANGED <<args, dry_run, images, source_catalog, loopVars, reqVars, docker_client,
                   outVars, enumerated>>

\* (68) the request leaves
CatalogRequest ==
    /\ pc = "catalog"
    /\ Send(Request("source", "GET", CatalogUrl(args)))
    /\ Goto("catalog_wait")
    /\ UNCHANGED <<args, dry_run, images, source_catalog, loopVars, reqVars, docker_client,
                   outVars, enumerated>>

\* (68) the answer, or the exception requests raises
CatalogResponse ==
    /\ pc = "catalog_wait"
    /\ Receive
    /\ \E r \in CatalogResponses :
         IF r.exc # "none"
         THEN Crash(r.exc, "catalog") /\ UNCHANGED source_catalog
         ELSE source_catalog' = r /\ Goto("catalog_check")
    /\ UNCHANGED <<args, dry_run, images, loopVars, reqVars, docker_client, outVars, enumerated>>

\* (69-74) exit(1) sits inside the loop over the errors: the first error is
\* printed and the run ends; an empty error list ends nothing
CatalogCheck ==
    /\ pc = "catalog_check"
    /\ IF ~source_catalog.is_json
       THEN Crash("JSONDecodeError", "catalog") /\ UNCHANGED stdout
       ELSE IF "errors" \in source_catalog.json.keys /\ source_catalog.json.errors # <<>>
       THEN LET error == source_catalog.json.errors[1]
            IN  /\ stdout' = stdout \o << <<"">>,
                                  <<"Error connecting to ">> \o args.source_registry \o <<":">>,
                                  <<error.code, ": ", error.message>> >>
                /\ Exit(1)
       ELSE Goto("docker_init") /\ UNCHANGED stdout
    /\ UNCHANGED <<args, dry_run, images, source_catalog, loopVars, reqVars, docker_client,
                   csvFile, executed, httpVars, enumerated>>

\* (77)
DockerFromEnv ==
    /\ pc = "docker_init"
    /\ docker_client' = "open"
    /\ Goto("login_source")
    /\ UNCHANGED <<args, dry_run, images, source_catalog, loopVars, reqVars, outVars,
                   httpVars, enumerated>>

\* (79-86) docker_client.login goes through the daemon, not through a session
LoginSource ==
    /\ pc = "login_source"
    /\ IF args.source_user # "" /\ args.source_password # ""
       THEN \E err \in {"none", "APIError"} :
              IF err = "none" THEN Goto("login_target") /\ UNCHANGED stdout
              ELSE /\ stdout' = stdout \o << <<"">>,
                                    <<"Could not login to ">> \o args.source_registry \o <<":">>,
                                    <<err>> >>
                   /\ Exit(1)
       ELSE Goto("login_target") /\ UNCHANGED stdout
    /\ UNCHANGED <<args, dry_run, images, source_catalog, loopVars, reqVars, docker_client,
                   csvFile, executed, httpVars, enumerated>>

\* (87-94)
LoginTarget ==
    /\ pc = "login_target"
    /\ IF args.target_user # "" /\ args.target_password # ""
       THEN \E err \in {"none", "APIError"} :
              IF err = "none" THEN Goto("for_image") /\ UNCHANGED stdout
              ELSE /\ stdout' = stdout \o << <<"">>,
                                    <<"Could not login to ">> \o args.target_registry \o <<":">>,
                                    <<err>> >>
                   /\ Exit(1)
       ELSE Goto("for_image") /\ UNCHANGED stdout
    /\ UNCHANGED <<args, dry_run, images, source_catalog, loopVars, reqVars, docker_client,
                   csvFile, executed, httpVars, enumerated>>

\* room left for identities in this run
Room == MaxRecords - (Len(images) - 1)

Min(a, b) == IF a <= b THEN a ELSE b

\* (97-99) the next repository of the catalog, and its tag list request;
\* a catalog body without "repositories" is a KeyError
ForImage ==
    /\ pc = "for_image"
    /\ IF "repositories" \notin source_catalog.json.keys
       THEN Crash("KeyError", "catalog") /\ UNCHANGED <<image_idx, image, httpVars>>
       ELSE IF image_idx < Len(source_catalog.json.repositories)
       THEN /\ image_idx' = image_idx + 1
            /\ image' = source_catalog.json.repositories[image_idx + 1]
            /\ Send(Request("source", "GET", TagsUrl(args, image')))
            /\ Goto("tags_wait")
       ELSE Goto("csv") /\ UNCHANGED <<image_idx, image, httpVars>>
    /\ UNCHANGED <<args, dry_run, images, source_catalog, tags, tag_idx, tag, reqVars,
                   docker_client, outVars, enumerated>>

\* tags.json()['tags'] is a list
UsableTagList(response) ==
    /\ response.is_json
    /\ "tags" \in response.json.keys
    /\ "tags" \notin response.json.nulls

\* (99) the tag list, or the exception requests raises
TagsResponse ==
    /\ pc = "tags_wait"
    /\ Receive
    /\ \E r \in TagListResponses(Min(MaxTags, Room)) :
         IF r.exc # "none"
         THEN Crash(r.exc, "tags") /\ UNCHANGED <<tags, tag_idx, enumerated>>
         ELSE /\ tags' = r
              /\ tag_idx' = 0
              /\ enumerated' = IF UsableTagList(r)
                               THEN Append(enumerated, [ image |-> image, tags |-> r.json.tags ])
                               ELSE enumerated
              /\ Goto("for_tag")
    /\ UNCHANGED <<args, dry_run, images, source_catalog, image_idx, image, tag, reqVars,
                   docker_client, outVars>>

\* (101-103) the next tag of the list, and its source manifest request; a
\* body that is not JSON, has no "tags" or has "tags": null raises
ForTag ==
    /\ pc = "for_tag"
    /\ IF ~tags.is_json
       THEN Crash("JSONDecodeError", "tags") /\ UNCHANGED <<tag_idx, tag, httpVars>>
       ELSE IF "tags" \notin tags.json.keys
       THEN Crash("KeyError", "tags") /\ UNCHANGED <<tag_idx, tag, httpVars>>
       ELSE IF "tags" \in tags.json.nulls
       THEN Crash("TypeError", "tags") /\ UNCHANGED <<tag_idx, tag, httpVars>>
       ELSE IF tag_idx < Len(tags.json.tags)
       THEN /\ tag_idx' = tag_idx + 1
            /\ tag' = tags.json.tags[tag_idx + 1]
            /\ Send(Request("source", "GET", SourceManifestUrl(args, image, tag')))
            /\ Goto("source_digest_wait")
       ELSE Goto("for_image") /\ UNCHANGED <<tag_idx, tag, httpVars>>
    /\ UNCHANGED <<args, dry_run, images, source_catalog, image_idx, image, tags, reqVars,
                   docker_client, outVars, enumerated>>

\* (103-104) the source manifest answer, then the target manifest request
SourceDigestResponse ==
    /\ pc = "source_digest_wait"
    /\ \E r \in RunManifestResponses :
         IF r.exc # "none"
         THEN /\ Receive
              /\ Crash(r.exc, "source_manifest")
              /\ UNCHANGED source_digest_request
         ELSE /\ source_digest_request' = r
              /\ trace' = Append(trace, Request("target", "GET", TargetManifestUrl(args, image, tag)))
              /\ inflight' = {Request("target", "GET", TargetManifestUrl(args, image, tag))}
              /\ Goto("target_digest_wait")
    /\ UNCHANGED <<args, dry_run, images, source_catalog, loopVars, target_digest_request,
                   docker_client, outVars, enumerated>>

\* (104) the target manifest answer
TargetDigestResponse ==
    /\ pc = "target_digest_wait"
    /\ Receive
    /\ \E r \in RunManifestResponses :
         IF r.exc # "none"
         THEN Crash(r.exc, "target_manifest") /\ UNCHANGED target_digest_request
         ELSE target_digest_request' = r /\ Goto("image_info")
    /\ UNCHANGED <<args, dry_run, images, source_catalog, loopVars, source_digest_request,
                   docker_client, outVars, enumerated>>

\* the record inserted right after the header instead of appended
AppendImageInfoAtFront ==
    /\ pc = "image_info"
    /\ images' = <<Head(images)>>
                   \o <<ImageInfo(args, image, tag, source_digest_request, target_digest_request)>>
                   \o Tail(images)
    /\ Goto("for_tag")
    /\ UNCHANGED <<args, dry_run, source_catalog, loopVars, reqVars, docker_client, outVars,
                   httpVars, enumerated>>

\* (105-135) the record is built and appended
AppendImageInfo ==
    /\ pc = "image_info"
    /\ images' = Append(images, ImageInfo(args, image, tag, source_digest_request,
                                          target_digest_request))
    /\ Goto("for_tag")
    /\ UNCHANGED <<args, dry_run, source_catalog, loopVars, reqVars, docker_client, outVars,
                   httpVars, enumerated>>

\* (138-152) csv_write is True: every element of images, the header record
\* included, is written as a row
WriteCsv ==
    /\ pc = "csv"
    /\ csvFile' = [ i \in 1..Len(images) |-> CsvRow(images[i]) ]
    /\ stdout' = Append(stdout, <<"CSV export completed">>)
    /\ Goto("output")
    /\ UNCHANGED <<args, dry_run, images, source_catalog, loopVars, reqVars, docker_client,
                   executed, httpVars, enumerated>>

\* (154-180) the dry run prints and closes the client; otherwise the client
\* is closed and the script exits
Output ==
    /\ pc = "output"
    /\ IF dry_run
       THEN /\ stdout' = stdout \o DryRunOutput(images)
            /\ executed' = executed
            /\ pc' = "done" /\ exit_status' = 0 /\ UNCHANGED traceback
       ELSE /\ executed' = executed \o ExecutePlan(images)
            /\ stdout' = stdout
            /\ Exit(0)
    /\ docker_client' = "closed"
    /\ UNCHANGED <<args, dry_run, images, source_catalog, loopVars, reqVars, csvFile,
                   httpVars, enumerated>>

Next ==
    \/ SourceAuth \/ SourceAuthResponse \/ TargetAuth \/ TargetAuthResponse
    \/ CatalogRequest \/ CatalogResponse \/ CatalogCheck
    \/ DockerFromEnv \/ LoginSource \/ LoginTarget
    \/ ForImage \/ TagsResponse \/ ForTag
    \/ SourceDigestResponse \/ TargetDigestResponse \/ AppendImageInfo
    \/ WriteCsv \/ Output

Spec == Init /\ [][Next]_vars

-----------------------------------------------------------------------------
(* The loop body on its own: the script stands at line 105 of the first     *)
(* image:tag of a one-repository, one-tag source registry, the two manifest *)
(* answers in hand, for every pair of addresses and every pair of answers.  *)

InitRecord ==
    /\ args \in { Namespace(s, "", "", t, "", "") : s \in Addresses, t \in Addresses }
    /\ dry_run \in BOOLEAN
    /\ pc = "image_info"
    /\ images = <<HeaderRecord>>
    /\ image \in RepoNames
    /\ tag \in TagNames
    /\ image_idx = 1 /\ tag_idx = 1
    /\ source_catalog = Response("none", 200, TRUE,
                                 JsonObject({"repositories"}, {}, <<image>>, <<>>, <<>>), {})
    /\ tags = Response("none", 200, TRUE,
                       JsonObject({"name", "tags"}, {}, <<>>, <<tag>>, <<>>), {})
    /\ source_digest_request \in ManifestResponses
    /\ target_digest_request \in ManifestResponses
    /\ docker_client = "open"
    /\ stdout = <<>>
    /\ csvFile = <<>>
    /\ executed = <<>>
    /\ exit_status = "running"
    /\ traceback = [ exc |-> "none", at |-> "none" ]
    /\ trace = << Request("source", "GET", CatalogUrl(args)),
                  Request("source", "GET", TagsUrl(args, image)),
                  Request("source", "GET", SourceManifestUrl(args, image, tag)),
                  Request("target", "GET", TargetManifestUrl(args, image, tag)) >>
    /\ inflight = {}
    /\ enumerated = << [ image |-> image, tags |-> <<tag>> ] >>

NextRecord == AppendImageInfo \/ ForTag \/ ForImage \/ WriteCsv \/ Output

SpecRecord == InitRecord /\ [][NextRecord]_vars

-----------------------------------------------------------------------------
(* Properties.                                                              *)

MissingOnTarget == image_status[1]
InSync == image_status[2]
Conflict == image_status[3]

\* the reconciliation records: the report without its header
Records == Tail(images)

\* a digest observation is Absent when the record's digest string is empty
\* (the test of line 124) and Present(d) when it is the non-empty string d
Absent(digest) == digest = ""

\* C1: the status of every record is decided by its pair of digest
\* observations alone: MissingOnTarget when the target digest is Absent
\* (whatever the source), InSync when both are Present and equal, Conflict
\* otherwise (both Present and different, or source Absent and target
\* Present).
C1_StatusIsFunctionOfDigests ==
    \A i \in 1..Len(Records) :
      LET r == Records[i]
      IN  /\ r.status \in {MissingOnTarget, InSync, Conflict}
          /\ Absent(r.target_digest) => r.status = MissingOnTarget
          /\ (~Absent(r.source_digest) /\ ~Absent(r.target_digest)
                /\ r.source_digest = r.target_digest) => r.status = InSync
          /\ (~Absent(r.target_digest) /\ r.source_digest # r.target_digest)
                => r.status = Conflict

\* a record whose source digest is Absent and whose target digest is Present
C1_Witness ==
    \E i \in 1..Len(Records) :
      /\ Absent(Records[i].source_digest)
      /\ ~Absent(Records[i].target_digest)
      /\ Records[i].status = Conflict

\* the record built from the two manifest answers in hand
BuiltRecord == Records[Len(Records)]

RecordBuilt == pc \in {"for_tag", "for_image", "csv", "output", "done", "exited"} /\ Records # <<>>

\* C7 as stated: on either side and for any status code, the observation is
\* Present(d) exactly when the answer carries the digest header, d being the
\* header's value, and Absent exactly when the header is missing.
C7_HeaderPresenceDecidesObservation ==
    RecordBuilt =>
      /\ ~Absent(BuiltRecord.source_digest) <=> HasHeader(source_digest_request, DigestHeader)
      /\ ~Absent(BuiltRecord.target_digest) <=> HasHeader(target_digest_request, DigestHeader)
      /\ HasHeader(source_digest_request, DigestHeader)
           => BuiltRecord.source_digest = GetHeader(source_digest_request, DigestHeader)
      /\ HasHeader(target_digest_request, DigestHeader)
           => BuiltRecord.target_digest = GetHeader(target_digest_request, DigestHeader)

NonEmptyHeader(response) ==
    HasHeader(response, DigestHeader) /\ GetHeader(response, DigestHeader) # ""

\* C7, amended: on either side and for any status code, the observation is
\* Present(d) exactly when the answer carries the digest header with a
\* non-empty value d, and Absent exactly when the header is missing or its
\* value is empty; the status code has no influence and a missing header
\* raises nothing.
C7_NonEmptyHeaderDecidesObservation ==
    RecordBuilt =>
      /\ ~Absent(BuiltRecord.source_digest) <=> NonEmptyHeader(source_digest_request)
      /\ ~Absent(BuiltRecord.target_digest) <=> NonEmptyHeader(target_digest_request)
      /\ NonEmptyHeader(source_digest_request)
           => BuiltRecord.source_digest = GetHeader(source_digest_request, DigestHeader)
      /\ NonEmptyHeader(target_digest_request)
           => BuiltRecord.target_digest = GetHeader(target_digest_request, DigestHeader)
      /\ traceback.exc = "none"

\* a 404 answer that carries a digest, and a 200 answer that carries none
C7_Witness ==
    /\ RecordBuilt
    /\ source_digest_request.status_code = 404
    /\ NonEmptyHeader(source_digest_request)
    /\ BuiltRecord.source_digest = GetHeader(source_digest_request, DigestHeader)
    /\ target_digest_request.status_code = 200
    /\ ~HasHeader(target_digest_request, DigestHeader)
    /\ Absent(BuiltRecord.target_digest)

\* the image reference {host}/{repo}:{tag}
Reference(host, img, tg) == host \o <<"/", img, ":", tg>>

\* the five command steps of record r reference source host hs and target host ht
CommandsReference(r, hs, ht) ==
    /\ r.pull_command = <<"docker pull ">> \o Reference(hs, r.image, r.tag)
    /\ r.retag_command = <<"docker tag ">> \o Reference(hs, r.image, r.tag)
                           \o <<" ">> \o Reference(ht, r.image, r.tag)
    /\ r.push_command = <<"docker push ">> \o Reference(ht, r.image, r.tag)
    /\ r.cleanup_source = <<"docker rmi ">> \o Reference(hs, r.image, r.tag)
    /\ r.cleanup_target = <<"docker rmi ">> \o Reference(ht, r.image, r.tag)

\* an address without its scheme prefix (the leading scheme and "://"), the
\* rest untouched
WithoutSchemePrefix(address) ==
    IF Len(address) >= 2 /\ address[2] = "://"
    THEN SubSeq(address, 3, Len(address)) ELSE address

\* the part of an address that follows its last "://"; all of it when it has none
AfterLastSeparator(address) ==
    LET k == CHOOSE k \in 0..Len(address) :
               /\ k > 0 => address[k] = "://"
               /\ \A i \in (k + 1)..Len(address) : address[i] # "://"
    IN  SubSeq(address, k + 1, Len(address))

\* C9 as stated: every image reference in a record's command steps is
\* {host}/{repo}:{tag}, the host being the registry address with its scheme
\* prefix removed and nothing else removed.
C9_HostIsAddressWithoutScheme ==
    \A i \in 1..Len(Records) :
      CommandsReference(Records[i], WithoutSchemePrefix(args.source_registry),
                        WithoutSchemePrefix(args.target_registry))

\* C9, amended: every image reference in a record's command steps is
\* {host}/{repo}:{tag}, the host being what follows the last "://" of the
\* registry address (the address without its scheme prefix when it holds one
\* "://", the whole address when it holds none); pull and cleanup-source
\* reference the source host, push and cleanup-target the target host, retag
\* the source reference then the target reference.  For target
\* https://target.example.com, repository app and tag v1 the push step
\* references target.example.com/app:v1.
C9_HostFollowsLastSeparator ==
    \A i \in 1..Len(Records) :
      /\ CommandsReference(Records[i], AfterLastSeparator(args.source_registry),
                           AfterLastSeparator(args.target_registry))
      /\ ( /\ args.target_registry = <<"https", "://", "target.example.com">>
           /\ Records[i].image = "app" /\ Records[i].tag = "v1" )
         => Records[i].push_command
              = <<"docker push ", "target.example.com", "/", "app", ":", "v1">>

\* the record of app:v1 for target https://target.example.com and a source
\* address with a scheme
C9_Witness ==
    \E i \in 1..Len(Records) :
      /\ args.target_registry = <<"https", "://", "target.example.com">>
      /\ args.source_registry = <<"https", "://", "source.example.com">>
      /\ Records[i].image = "app" /\ Records[i].tag = "v1"
      /\ Records[i].pull_command = <<"docker pull ", "source.example.com", "/", "app", ":", "v1">>

\* the action plan a record carries: its command steps that are not empty
PlanOf(r) ==
    SelectSeq(<< r.pull_command, r.retag_command, r.push_command,
                 r.cleanup_source, r.cleanup_target >>,
              LAMBDA step : step # <<>>)

PlanVerbs == <<"docker pull ", "docker tag ", "docker push ", "docker rmi ", "docker rmi ">>

\* the plan is pull, retag, push, remove source copy, remove target copy
FiveOrderedSteps(r) ==
    /\ Len(PlanOf(r)) = Len(PlanVerbs)
    /\ \A k \in 1..Len(PlanVerbs) : PlanOf(r)[k][1] = PlanVerbs[k]
    /\ SubSeq(PlanOf(r)[4], 2, Len(PlanOf(r)[4])) = SubSeq(PlanOf(r)[1], 2, Len(PlanOf(r)[1]))
    /\ SubSeq(PlanOf(r)[5], 2, Len(PlanOf(r)[5])) = SubSeq(PlanOf(r)[3], 2, Len(PlanOf(r)[3]))

IsCommandLine(line) == line # <<>> /\ line[1] \in { PlanVerbs[k] : k \in 1..Len(PlanVerbs) }

\* the docker commands printed so far
PrintedCommands == SelectSeq(stdout, IsCommandLine)

\* C2 as stated: a MissingOnTarget record's plan has exactly the 5 ordered
\* steps; an InSync or Conflict record's plan has no step.
C2_PlanOnlyForMissingOnTarget ==
    \A i \in 1..Len(Records) :
      /\ Records[i].status = MissingOnTarget => FiveOrderedSteps(Records[i])
      /\ Records[i].status \in {InSync, Conflict} => Len(PlanOf(Records[i])) = 0

\* the steps the dry run owes each record, in report order
RECURSIVE DuePlans(_)
DuePlans(recs) ==
    IF recs = <<>> THEN <<>>
    ELSE (IF Head(recs).status = MissingOnTarget THEN PlanOf(Head(recs)) ELSE <<>>)
         \o DuePlans(Tail(recs))

\* C2, amended: every record, whatever its status, carries exactly the 5
\* steps pull, retag, push, remove-local-source-copy, remove-local-target-copy
\* in this order; it is the dry run's printed plan that has these 5 steps for
\* a MissingOnTarget record and none for an InSync or Conflict record.
C2_EveryRecordCarriesFiveSteps ==
    /\ \A i \in 1..Len(Records) : FiveOrderedSteps(Records[i])
    /\ pc = "done" => PrintedCommands = DuePlans(Records)

\* a finished dry run over an InSync record and a MissingOnTarget record:
\* both carry five steps, five lines are printed
C2_Witness ==
    /\ pc = "done"
    /\ \E i, j \in 1..Len(Records) :
         /\ Records[i].status = InSync /\ FiveOrderedSteps(Records[i])
         /\ Records[j].status = MissingOnTarget
    /\ Len(Records) = 2
    /\ Len(PrintedCommands) = 5

-----------------------------------------------------------------------------
(* Properties of whole runs.                                                *)

Identities(recs) == [ i \in 1..Len(recs) |-> <<recs[i].image, recs[i].tag>> ]

\* the (repository, tag) pairs enumerated so far, in catalog and tag list order
Enumeration ==
    Flatten([ k \in 1..Len(enumerated) |->
                [ j \in 1..Len(enumerated[k].tags) |->
                    <<enumerated[k].image, enumerated[k].tags[j]>> ] ])

InLoopBody ==
    \/ pc \in {"source_digest_wait", "target_digest_wait", "image_info"}
    \/ pc = "crashed" /\ traceback.at \in {"source_manifest", "target_manifest"}

\* identities of the current tag list whose loop body has not completed
Pending ==
    IF InLoopBody THEN Len(tags.json.tags) - (tag_idx - 1)
    ELSE IF pc = "for_tag" /\ UsableTagList(tags) THEN Len(tags.json.tags) - tag_idx
    ELSE 0

Completed == pc = "done" \/ (pc = "exited" /\ exit_status = 0)

ReportFollowsEnumeration ==
    /\ images[1] = HeaderRecord
    /\ Identities(Records) = SubSeq(Enumeration, 1, Len(Enumeration) - Pending)
    /\ Completed =>
         /\ Identities(Records) = Enumeration
         /\ [ k \in 1..Len(enumerated) |-> enumerated[k].image ]
              = source_catalog.json.repositories

\* C3: at every point of a run the report is the header record followed by
\* one record for each identity processed so far, in catalog enumeration
\* order (repositories in catalog order, tags in tag list order); no step
\* changes, reorders, duplicates or removes a record already appended; at the
\* end of a run the records are exactly the enumerated (repository, tag) pairs.
C3_ReportIsAppendOnlyInEnumerationOrder ==
    /\ []ReportFollowsEnumeration
    /\ [][IsPrefix(images, images')]_vars

\* a finished run over two repositories of one tag each
C3_Witness ==
    /\ Completed
    /\ Len(enumerated) = 2
    /\ Len(Records) = 2
    /\ Records[1].image # Records[2].image
    /\ Identities(Records) = Enumeration

\* the lines printed after the Conflict status message
ConflictListing ==
    LET at == { m \in 1..Len(stdout) : stdout[m] = <<Conflict>> }
    IN  IF at = {} THEN <<>> ELSE SubSeq(stdout, Max(at) + 1, Len(stdout))

\* C8: commands are printed only in the dry run's output phase and only for
\* MissingOnTarget records, each as pull, retag, push, cleanup-source,
\* cleanup-target, in report order; the conflict listing names the image:tag
\* of exactly the Conflict records; the header record is never treated as a
\* record; nothing is ever executed against the daemon, dry run or not.
C8_OutputPhaseOnlyPrints ==
    /\ executed = <<>>
    /\ pc # "done" => PrintedCommands = <<>> /\ ConflictListing = <<>>
    /\ pc = "done" =>
         /\ PrintedCommands =
              Flatten([ i \in 1..Len(Records) |->
                          IF Records[i].status = MissingOnTarget
                          THEN << Records[i].pull_command, Records[i].retag_command,
                                  Records[i].push_command, Records[i].cleanup_source,
                                  Records[i].cleanup_target >>
                          ELSE <<>> ])
         /\ ConflictListing =
              LET conflicts == SelectSeq(Records, LAMBDA r : r.status = Conflict)
              IN  [ i \in 1..Len(conflicts) |-> <<conflicts[i].image, ":", conflicts[i].tag>> ]
    /\ \A k \in 1..Len(stdout) :
         /\ stdout[k] # HeaderRecord.pull_command
         /\ stdout[k] # <<HeaderRecord.image, ":", HeaderRecord.tag>>

\* a finished dry run over a MissingOnTarget record and a Conflict record
C8_Witness ==
    /\ pc = "done"
    /\ Len(Records) = 2
    /\ Records[1].status = Conflict
    /\ Records[2].status = MissingOnTarget
    /\ Len(PrintedCommands) = 5
    /\ Len(ConflictListing) = 1

\* the GET requests issued so far
Gets == SelectSeq(trace, LAMBDA req : req.method = "GET")

IsManifestRequest(req) == \E k \in 1..Len(req.url) : req.url[k] = "/manifests/"

\* the requests one enumerated repository accounts for
RequestsOf(entry) ==
    << Request("source", "GET", TagsUrl(args, entry.image)) >>
    \o Flatten([ j \in 1..Len(entry.tags) |->
                   << Request("source", "GET", SourceManifestUrl(args, entry.image, entry.tags[j])),
                      Request("target", "GET", TargetManifestUrl(args, entry.image, entry.tags[j])) >> ])

\* the requests the enumeration so far accounts for
Expected ==
    << Request("source", "GET", CatalogUrl(args)) >>
    \o Flatten([ k \in 1..Len(enumerated) |-> RequestsOf(enumerated[k]) ])

\* C10: the registry calls are one sequential trace without retries: the
\* catalog once and first, each repository's tag list once and on the source
\* only, for each identity the source manifest then the target manifest once
\* each; the record of an identity is appended before the next identity is
\* queried; at most one call is outstanding.
C10_SequentialTraceWithoutRetries ==
    /\ Cardinality(inflight) <= 1
    /\ \/ IsPrefix(Gets, Expected)
       \/ Gets = Expected \o << Request("source", "GET", TagsUrl(args, image)) >>
    /\ Len(SelectSeq(Gets, IsManifestRequest)) \in
         { 2 * Len(Records), 2 * Len(Records) + 1, 2 * Len(Records) + 2 }
    /\ pc \in {"for_tag", "for_image", "csv", "output"} \/ Completed
         => Len(SelectSeq(Gets, IsManifestRequest)) = 2 * Len(Records)
    /\ Completed =>
         /\ Gets = Expected
         /\ [ k \in 1..Len(enumerated) |-> enumerated[k].image ]
              = source_catalog.json.repositories

\* a finished run of two identities: catalog, tag list and four manifest requests
C10_Witness ==
    /\ Completed
    /\ Len(Records) = 2
    /\ Len(enumerated) = 1
    /\ Len(Gets) = 6
    /\ Gets[1] = Request("source", "GET", CatalogUrl(args))

Ended == pc \in {"crashed", "exited", "done"}

\* the tag list of the current repository could not be retrieved
TagListUnavailable ==
    \/ traceback.at = "tags"
    \/ pc = "for_tag" /\ ~UsableTagList(tags)

\* C4: when the tag list query of one repository fails, the run still
\* completes: the failure ends nothing, the repository contributes no
\* record, and the other repositories are reconciled.
C4_TagListFailureIsNotFatal ==
    /\ TagListUnavailable => pc # "crashed"
    /\ (Ended /\ Len(enumerated) < image_idx) => Completed

\* the source catalog could not be listed: the request raised, the body is
\* not JSON, it carries errors, or it carries no repository list
CatalogUnavailable ==
    \/ traceback.at = "catalog"
    \/ /\ source_catalog # Unset
       /\ \/ ~source_catalog.is_json
          \/ "repositories" \notin source_catalog.json.keys
          \/ "errors" \in source_catalog.json.keys /\ source_catalog.json.errors # <<>>

\* a message that names the source registry and the cause: the script's own
\* two lines, or the text of the exception requests raised for the registry's URL
MessageNamesRegistryAndCause ==
    \/ \E k \in 1..(Len(stdout) - 1) :
         /\ stdout[k] = <<"Error connecting to ">> \o args.source_registry \o <<":">>
         /\ Len(stdout[k + 1]) = 3 /\ stdout[k + 1][2] = ": "
    \/ traceback = [ exc |-> "ConnectionError", at |-> "catalog" ]

\* C5: when the source catalog cannot be listed (transport error or error
\* payload) the run aborts at once with a non-zero exit status and a message
\* naming the registry and the cause; no tag list or manifest is queried, no
\* record is produced, no report or command list is written.
C5_CatalogFailureAbortsWithMessage ==
    CatalogUnavailable =>
      /\ Len(Gets) <= 1
      /\ Records = <<>>
      /\ csvFile = <<>>
      /\ PrintedCommands = <<>>
      /\ Ended \/ pc = "catalog_check"
      /\ Ended => exit_status = 1 /\ MessageNamesRegistryAndCause

\* a manifest lookup of the current identity failed at transport level
DigestLookupFailed == traceback.at \in {"source_manifest", "target_manifest"}

\* C6: when a manifest lookup of an identity fails at transport level, on
\* either registry, the report still holds exactly one record for that
\* identity, marked unresolved, and its status is not MissingOnTarget.
C6_FailedLookupKeepsUnresolvedRecord ==
    DigestLookupFailed =>
      LET held == { i \in 1..Len(Records) :
                      Records[i].image = image /\ Records[i].tag = tag }
      IN  /\ Cardinality(held) = 1
          /\ \A i \in held : Records[i].status \notin {MissingOnTarget, InSync, Conflict}

====
